---- MODULE Spec2Model ----
(***************************************************************************)
(* Model of the Monaco 2018 Q1 report: reporting_gen.py (DriverLapInfo,    *)
(* Q1Processor, Q1ReportGenerator) and the two Flask routes of app.py that *)
(* consume it.                                                             *)
(*                                                                         *)
(* A dict is a sequence in insertion order: assigning to an existing key   *)
(* keeps the key's place, assigning to a new key appends.  A timestamp is  *)
(* a number of milliseconds, a timedelta a (possibly negative) number of   *)
(* milliseconds.  Optional values (None or a value, an attribute that may  *)
(* not exist) are sequences of length 0 or 1.                              *)
(***************************************************************************)
EXTENDS Integers, Sequences, FiniteSets, TLC

(***************************************************************************)
(* Bounds of the model.                                                    *)
(***************************************************************************)
\* length of a small start.log / abbreviations.txt, in lines
MaxLines == 2
\* timestamps of the small logs are 0..MaxTime
MaxTime == 2
\* calls of process_files on one processor
MaxLoads == 2
\* the large data sets hold up to Cutoff + BigExtra records
BigExtra == 1

\* the 15 of get_report_data: positions up to it advance
Cutoff == 15

(***************************************************************************)
(* Inputs.                                                                 *)
(***************************************************************************)
\* three-letter codes; a data set of n records holds the first n of them
CodePool ==
    << "SVF", "DRR", "VBM", "LHM", "KRF", "MVF", "FAM", "CSR", "PGS", "RGH",
       "NHR", "SPF", "EOF", "SVM", "LSW", "CLS", "SSW", "BHS", "MES", "KMH" >>
\* the codes of the small data sets
SmallCodes == << "SVF", "DRR" >>
Codes == { SmallCodes[i] : i \in 1..Len(SmallCodes) }
\* a code no file ever holds
UnknownCode == "ZZZ"
Times == 0..MaxTime
\* the start time of the large data sets
BigStart == 100

\* the codes a caller asks for
QueryCodes == Codes \cup { UnknownCode }

\* the order arguments a caller passes
Orders == { "asc", "desc", "up" }

\* a line of a log, as re.match sees it: no match, or (code, timestamp)
NoMatch == [match |-> FALSE, driver_init |-> "", timestamp |-> 0]
LogLine(c, t) == [match |-> TRUE, driver_init |-> c, timestamp |-> t]
\* a line of abbreviations.txt, as line.strip().split('_') returns it
AbbrLine(c) == << c, "name-" \o c, "team-" \o c >>
BadAbbrLine == << "garbage" >>

File(ls) == [exists |-> TRUE, lines |-> ls]
MissingFile == [exists |-> FALSE, lines |-> << >>]

SeqsUpTo(S, n) == UNION { [1..k -> S] : k \in 0..n }

RECURSIVE SeqOfSet(_)
\* the elements of a set of codes, in CodePool order
SeqOfSet(S) ==
    IF S = {} THEN << >>
    ELSE LET i == CHOOSE i \in 1..Len(CodePool) :
                      /\ CodePool[i] \in S
                      /\ \A j \in 1..(i - 1) : CodePool[j] \notin S
         IN << CodePool[i] >> \o SeqOfSet(S \ { CodePool[i] })

StartLogs ==
    { MissingFile } \cup
    { File(ls) : ls \in SeqsUpTo({ NoMatch } \cup { LogLine(c, 1) : c \in Codes }, MaxLines) }

\* an end.log: each code of a subset with one end time
EndLogs ==
    { MissingFile } \cup
    { File([i \in 1..Len(SeqOfSet(DOMAIN f)) |->
              LogLine(SeqOfSet(DOMAIN f)[i], f[SeqOfSet(DOMAIN f)[i]])]) :
        f \in UNION { [S -> Times] : S \in SUBSET Codes } }

AbbrFiles ==
    { MissingFile } \cup
    { File(ls) : ls \in SeqsUpTo({ BadAbbrLine } \cup { AbbrLine(c) : c \in Codes }, MaxLines) }

FullAbbr(n) == File([i \in 1..n |-> AbbrLine(CodePool[i])])

\* the small folders: the logs vary under complete metadata, and the
\* metadata varies under complete logs
TimingFolders ==
    { [start_log |-> s, end_log |-> e, abbreviations |-> FullAbbr(Len(SmallCodes))] :
        s \in StartLogs, e \in EndLogs }
MetaFolders ==
    { [start_log |-> File([i \in 1..Len(SmallCodes) |-> LogLine(CodePool[i], 1)]),
       end_log |-> File([i \in 1..Len(SmallCodes) |-> LogLine(CodePool[i], 2)]),
       abbreviations |-> a] : a \in AbbrFiles }

\* the large folders: n records around the cutoff, every one with an end time
BigShapes == { "rising", "falling", "tied", "anomaly" }
BigDuration(shape, i, n) ==
    CASE shape = "rising" -> i
      [] shape = "falling" -> n + 1 - i
      [] shape = "tied" -> IF i < Cutoff THEN i ELSE Cutoff
      [] shape = "anomaly" -> IF i = 1 THEN 0 - 1 ELSE i
BigFolders ==
    { [start_log |-> File([i \in 1..n |-> LogLine(CodePool[i], BigStart)]),
       end_log |-> File([i \in 1..n |->
                           LogLine(CodePool[i], BigStart + BigDuration(shape, i, n))]),
       abbreviations |-> FullAbbr(n)] :
        n \in (Cutoff - 1)..(Cutoff + BigExtra), shape \in BigShapes }

Folders == TimingFolders \cup MetaFolders \cup BigFolders

\* a sequence given as a function, as the tuple it is (computed once)
Tuple(s) == SubSeq(s, 1, Len(s))

Reverse(s) == Tuple([i \in 1..Len(s) |-> s[Len(s) + 1 - i]])

\* what may happen to the folder between two loads
Edits(f) ==
    { f,
      [f EXCEPT !.start_log = MissingFile],
      [f EXCEPT !.end_log = MissingFile],
      [f EXCEPT !.abbreviations = MissingFile],
      [f EXCEPT !.start_log.lines = Reverse(@)],
      [f EXCEPT !.start_log.lines = IF @ = << >> THEN @ ELSE Tail(@)],
      [f EXCEPT !.end_log.lines = IF @ = << >> THEN @ ELSE Tail(@)] }

(***************************************************************************)
(* dict: a sequence of [key, value] in insertion order.  The loops of the  *)
(* source build their dicts by assignments d[k] = v; DictAssign gives the  *)
(* dict such a loop leaves: an assignment to a key the dict holds replaces *)
(* the value in place, an assignment to a new key appends, so the keys     *)
(* stand in the order of their first assignment and each holds the value   *)
(* of its last.                                                            *)
(***************************************************************************)
DictKeys(d) == { d[i].key : i \in 1..Len(d) }
DictIndex(d, k) == CHOOSE i \in 1..Len(d) : d[i].key = k
DictGet(d, k) == d[DictIndex(d, k)].value
DictValues(d) == Tuple([i \in 1..Len(d) |-> d[i].value])

\* d after the assignments d[a.key] = a.value for a in assigns, in order
DictAssign(d, assigns) ==
    LET n == Len(assigns)
        Last(k) == CHOOSE i \in 1..n :
                       /\ assigns[i].key = k
                       /\ \A j \in (i + 1)..n : assigns[j].key /= k
        IsNew(i) == /\ assigns[i].key \notin DictKeys(d)
                    /\ \A j \in 1..(i - 1) : assigns[j].key /= assigns[i].key
        added == SelectSeq([i \in 1..n |-> i], IsNew)
    IN [i \in 1..Len(d) |->
            IF d[i].key \in DictKeys(assigns) THEN assigns[Last(d[i].key)] ELSE d[i]]
       \o [i \in 1..Len(added) |-> assigns[Last(assigns[added[i]].key)]]

(***************************************************************************)
(* reporting_gen.py                                                        *)
(***************************************************************************)
\* DriverLapInfo(driver_init, start_time): end_time is field(init=False)
\* without a default, so the attribute does not exist until it is assigned
DriverLapInfo(driver_init, start_time) ==
    [driver_init |-> driver_init, start_time |-> start_time, end_time |-> << >>,
     driver_name |-> "", team |-> ""]

\* reading driver.end_time raises AttributeError while it is unassigned
HasEndTime(d) == d.end_time /= << >>

\* the property, where end_time exists: None (<< >>) or the timedelta
driver_lap_time(d) ==
    IF d.end_time[1] < d.start_time THEN << >>
    ELSE << d.end_time[1] - d.start_time >>

IsMatch(line) == line.match

\* read_log_file: data[driver_init] = timestamp for every line the pattern
\* matches; an IOError of open() is caught and leaves data empty
read_log_file(file) ==
    IF ~file.exists THEN << >>
    ELSE LET matched == SelectSeq(file.lines, IsMatch)
         IN DictAssign(<< >>,
                       [i \in 1..Len(matched) |->
                           [key |-> matched[i].driver_init,
                            value |-> matched[i].timestamp]])

\* integrate_driver_info: each line is unpacked into three fields and, if its
\* code is a key, sets that record's name and team.  A line that does not
\* unpack raises ValueError out of the loop (only IOError is caught): the
\* lines before it were applied, the lines after it are never read
integrate_driver_info(drivers0, file) ==
    IF ~file.exists THEN [drivers |-> drivers0, raised |-> ""]
    ELSE LET lines == file.lines
             bad == { i \in 1..Len(lines) : Len(lines[i]) /= 3 }
             stop == IF bad = {} THEN Len(lines) + 1
                     ELSE CHOOSE i \in bad : \A j \in bad : i <= j
             Applied(k) == { i \in 1..(stop - 1) : lines[i][1] = k }
             LastLine(k) == lines[CHOOSE i \in Applied(k) : \A j \in Applied(k) : j <= i]
         IN [drivers |->
                [i \in 1..Len(drivers0) |->
                    IF Applied(drivers0[i].key) = {} THEN drivers0[i]
                    ELSE [drivers0[i] EXCEPT
                             !.value.driver_name = LastLine(drivers0[i].key)[2],
                             !.value.team = LastLine(drivers0[i].key)[3]]],
             raised |-> IF bad = {} THEN "" ELSE "ValueError"]

\* the loop of process_files over start_times.items(): a new DriverLapInfo,
\* with end_time assigned if the code is in end_times, is stored under the
\* code in self.drivers, which is never cleared
BuildDrivers(start_times, end_times, drivers0) ==
    DictAssign(drivers0,
               [i \in 1..Len(start_times) |->
                   LET driver_init == start_times[i].key
                       driver_info == DriverLapInfo(driver_init, start_times[i].value)
                   IN [key |-> driver_init,
                       value |-> IF driver_init \in DictKeys(end_times)
                                 THEN [driver_info EXCEPT
                                          !.end_time = << DictGet(end_times, driver_init) >>]
                                 ELSE driver_info]])

\* process_files on a processor whose mapping is drivers: the mapping it
\* leaves, and the exception it raised ("" for none)
process_files(drivers0, folder) ==
    LET start_times == read_log_file(folder.start_log)
        end_times == read_log_file(folder.end_log)
    IN integrate_driver_info(BuildDrivers(start_times, end_times, drivers0),
                             folder.abbreviations)

\* bool(x) of an Optional[timedelta]: None and timedelta(0) are falsy
Truthy(lap) == lap /= << >> /\ lap[1] /= 0

Pad2(n) == IF n < 10 THEN "0" \o ToString(n) ELSE ToString(n)
Pad3(n) == IF n < 10 THEN "00" \o ToString(n)
           ELSE IF n < 100 THEN "0" \o ToString(n) ELSE ToString(n)

\* str(timedelta) of ms >= 0 milliseconds, less than a day: H:MM:SS, and
\* .ffffff only if the microseconds are not zero
TimedeltaStr(ms) ==
    ToString(ms \div 3600000) \o ":" \o Pad2((ms \div 60000) % 60) \o ":"
        \o Pad2((ms \div 1000) % 60)
        \o (IF ms % 1000 = 0 THEN "" ELSE "." \o Pad3(ms % 1000) \o "000")

\* str(driver.driver_lap_time) if driver.driver_lap_time else "NO TIME"
LapTimeStr(d) ==
    IF Truthy(driver_lap_time(d)) THEN TimedeltaStr(driver_lap_time(d)[1])
    ELSE "NO TIME"

\* the sort key of rank_drivers: (driver_lap_time is None, driver_lap_time)
SortKey(d) == [none |-> driver_lap_time(d) = << >>, lap |-> driver_lap_time(d)]

\* a < b on two such tuples: the first items decide if they differ (False
\* before True); two None second items are equal; else the timedeltas decide
KeyLess(a, b) ==
    IF a.none /= b.none THEN b.none
    ELSE IF a.none THEN FALSE
    ELSE a.lap[1] < b.lap[1]

\* a stable ascending sort by SortKey: an item goes behind the items with a
\* smaller key and behind the earlier items with an equal key
StableSort(xs) ==
    LET n == Len(xs)
        k == Tuple([i \in 1..n |-> SortKey(xs[i])])
        pos == Tuple([i \in 1..n |->
                   1 + Cardinality({ j \in 1..n :
                           \/ KeyLess(k[j], k[i])
                           \/ (~KeyLess(k[i], k[j]) /\ j < i) })])
    IN Tuple([p \in 1..n |-> xs[CHOOSE i \in 1..n : pos[i] = p]])

\* list.sort(key=..., reverse=...): with reverse the list is reversed, sorted
\* stably and reversed again, which keeps equal items in their first order
ListSort(xs, reverse) ==
    IF reverse THEN Reverse(StableSort(Reverse(xs))) ELSE StableSort(xs)

Raise(e) == [raised |-> e, value |-> << >>]
Return(v) == [raised |-> "", value |-> v]

\* rank_drivers(order): the key function reads driver_lap_time of every
\* record, which raises AttributeError on a record without end_time
rank_drivers(ds, order) ==
    LET listed == DictValues(ds)
    IN IF \E i \in 1..Len(listed) : ~HasEndTime(listed[i]) THEN Raise("AttributeError")
       ELSE Return(ListSort(listed, order = "desc"))

\* get_report_data(order)
get_report_data(ds, order) ==
    LET ranked == rank_drivers(ds, order)
        ranked_drivers == ranked.value
    IN IF ranked.raised /= "" THEN ranked
       ELSE Return([i \in 1..Len(ranked_drivers) |->
                [position |-> i,
                 name |-> ranked_drivers[i].driver_name,
                 team |-> ranked_drivers[i].team,
                 lap_time |-> LapTimeStr(ranked_drivers[i]),
                 eliminated |-> IF order = "asc" THEN i > Cutoff
                                ELSE i <= Len(ranked_drivers) - Cutoff]])

\* get_all_drivers()
get_all_drivers(ds) ==
    Return([i \in 1..Len(ds) |->
               [code |-> ds[i].value.driver_init, name |-> ds[i].value.driver_name,
                team |-> ds[i].value.team]])

\* get_driver_info with self.processor.drivers[driver_init] in place of
\* .get(driver_init): an unknown code raises KeyError
get_driver_info_subscript(ds, driver_init) ==
    IF driver_init \notin DictKeys(ds) THEN Raise("KeyError")
    ELSE LET driver == DictGet(ds, driver_init)
         IN IF ~HasEndTime(driver) THEN Raise("AttributeError")
            ELSE Return(<< [name |-> driver.driver_name, team |-> driver.team,
                            lap_time |-> LapTimeStr(driver)] >>)

\* get_driver_info(driver_init): None is << >>, a dict is << dict >>
get_driver_info(ds, driver_init) ==
    IF driver_init \notin DictKeys(ds) THEN Return(<< >>)
    ELSE LET driver == DictGet(ds, driver_init)
         IN IF ~HasEndTime(driver) THEN Raise("AttributeError")
            ELSE Return(<< [name |-> driver.driver_name, team |-> driver.team,
                            lap_time |-> LapTimeStr(driver)] >>)

(***************************************************************************)
(* app.py                                                                  *)
(***************************************************************************)
\* request.args.get('order', 'asc'): args holds the parameter or nothing
RequestOrder(args) == IF args = << >> THEN "asc" ELSE args[1]

\* report(): the drivers the template is rendered with
report(ds, args) == get_report_data(ds, RequestOrder(args))

NotFoundInfo == [name |-> "Not Found", team |-> "N/A", lap_time |-> "N/A"]

\* driver_info(driver_id): the driver_info the template is rendered with
driver_info(ds, driver_id) ==
    LET info == get_driver_info(ds, driver_id)
    IN IF info.raised /= "" THEN info
       ELSE IF info.value = << >> THEN Return(<< NotFoundInfo >>)
       ELSE info

VARIABLES
    files,       \* the folder as the last load read it
    drivers,     \* processor.drivers
    generator,   \* whether report_generator was constructed
    loads,       \* calls of process_files so far
    load_raised, \* the exception the last process_files raised, "" for none
    result       \* what the last query returned or raised

vars == << files, drivers, generator, loads, load_raised, result >>

NoResult == [op |-> "none", arg |-> "", raised |-> "", value |-> << >>]

Init ==
    /\ files \in Folders
    /\ drivers = << >>
    /\ generator = FALSE
    /\ loads = 0
    /\ load_raised = ""
    /\ result = NoResult

\* Q1ReportGenerator(processor): __init__ runs processor.process_files();
\* if that raises, no generator exists
Construct ==
    /\ result = NoResult
    /\ ~generator
    /\ loads < MaxLoads
    /\ \E f \in (IF loads = 0 THEN { files } ELSE Edits(files)) :
         LET r == process_files(drivers, f)
         IN /\ files' = f
            /\ drivers' = r.drivers
            /\ load_raised' = r.raised
            /\ generator' = (r.raised = "")
    /\ loads' = loads + 1
    /\ result' = NoResult

\* processor.process_files() called again, after the folder changed
Reload ==
    /\ result = NoResult
    /\ generator
    /\ loads < MaxLoads
    /\ \E f \in Edits(files) :
         LET r == process_files(drivers, f)
         IN /\ files' = f
            /\ drivers' = r.drivers
            /\ load_raised' = r.raised
    /\ loads' = loads + 1
    /\ result' = NoResult
    /\ UNCHANGED generator

\* a call of the generator, from the routes or directly: calls are made one at
\* a time, and result holds what the call returned or raised
Answer(op, arg, r) ==
    /\ result = NoResult
    /\ generator
    /\ result' = [op |-> op, arg |-> arg, raised |-> r.raised, value |-> r.value]
    /\ UNCHANGED << files, drivers, generator, loads, load_raised >>

RankDrivers == \E order \in Orders :
    Answer("rank_drivers", order, rank_drivers(drivers, order))

GetReportData == \E order \in Orders :
    Answer("get_report_data", order, get_report_data(drivers, order))

GetAllDrivers == Answer("get_all_drivers", "", get_all_drivers(drivers))

GetDriverInfo == \E code \in QueryCodes :
    Answer("get_driver_info", code, get_driver_info(drivers, code))

\* GET /report/ with or without ?order=
ReportRoute == \E args \in { << >> } \cup { << o >> : o \in Orders } :
    Answer("report", IF args = << >> THEN "" ELSE args[1], report(drivers, args))

\* GET /report/drivers/<driver_id>
DriverInfoRoute == \E code \in QueryCodes :
    Answer("driver_info", code, driver_info(drivers, code))

\* the caller has taken the outcome of its call
Done ==
    /\ result /= NoResult
    /\ result' = NoResult
    /\ UNCHANGED << files, drivers, generator, loads, load_raised >>

Next ==
    \/ Construct
    \/ Reload
    \/ RankDrivers
    \/ GetReportData
    \/ GetAllDrivers
    \/ GetDriverInfo
    \/ ReportRoute
    \/ DriverInfoRoute
    \/ Done

Spec == Init /\ [][Next]_vars

(***************************************************************************)
(* Properties.                                                             *)
(***************************************************************************)
\* the dicts the last process_files read from the logs
loaded_start_times == read_log_file(files.start_log)
loaded_end_times == read_log_file(files.end_log)

\* a record's duration is defined: it has an end time, not before its start
Defined(d) == HasEndTime(d) /\ d.end_time[1] >= d.start_time

Codes_of(ds) == [i \in 1..Len(ds) |-> ds[i].driver_init]

\* the place of a key in a dict
Place(d, k) == DictIndex(d, k)

Returned(op) == result.op = op /\ result.raised = ""

\* C1: in the sequence rank_drivers returns, for either order, every record
\* with a defined duration comes before every record with an undefined one;
\* so with an anomaly record and a valid record present, the descending list
\* is not the ascending list reversed.
C1_AnomaliesLastInBothOrders ==
    Returned("rank_drivers") =>
        LET r == result.value
        IN /\ \A i, j \in 1..Len(r) : (Defined(r[i]) /\ ~Defined(r[j])) => i < j
           /\ ( /\ result.arg = "desc"
                /\ \E i \in 1..Len(r) : Defined(r[i])
                /\ \E i \in 1..Len(r) : ~Defined(r[i]) )
              => r /= Reverse(rank_drivers(drivers, "asc").value)

\* the codes the last load found in the start log and not in the end log
StartOnly == DictKeys(loaded_start_times) \ DictKeys(loaded_end_times)

IsStartOnly(c) == c \in StartOnly

\* C2: after a load in which some code is in the start log and not in the end
\* log, get_report_data, get_driver_info and rank_drivers return without
\* raising, give those records "NO TIME", and rank them last, in the order of
\* the start log.
C2_StartOnlyRecordsRankLast ==
    (loads > 0 /\ load_raised = "" /\ StartOnly /= {}) =>
        LET m == Cardinality(StartOnly)
            n == Len(result.value)
            expected == SelectSeq(Codes_of(DictValues(loaded_start_times)), IsStartOnly)
        IN /\ result.op \in { "rank_drivers", "get_report_data", "get_driver_info" }
                => result.raised = ""
           /\ (result.op = "get_driver_info" /\ result.arg \in StartOnly)
                => /\ result.value /= << >>
                   /\ result.value[1].lap_time = "NO TIME"
           /\ result.op = "rank_drivers"
                => /\ n >= m
                   /\ [i \in 1..m |-> result.value[n - m + i].driver_init] = expected
           /\ result.op = "get_report_data"
                => /\ n >= m
                   /\ \A i \in (n - m + 1)..n : result.value[i].lap_time = "NO TIME"

BadLines == { i \in 1..Len(files.abbreviations.lines) :
                Len(files.abbreviations.lines[i]) /= 3 }

\* the well-formed metadata lines of the last load that name code c
GoodLines(c) == { i \in 1..Len(files.abbreviations.lines) :
                    /\ i \notin BadLines
                    /\ files.abbreviations.lines[i][1] = c }

\* C3: a load whose metadata file holds a line that does not split into three
\* fields completes without raising, holds a record for every code of the
\* start log, and has applied every well-formed metadata line, before and
\* after the malformed one, to the record it names.
C3_MalformedMetadataLineSkipped ==
    (loads > 0 /\ files.abbreviations.exists /\ BadLines /= {}) =>
        /\ load_raised = ""
        /\ DictKeys(loaded_start_times) \subseteq DictKeys(drivers)
        /\ \A c \in DictKeys(loaded_start_times) \cap DictKeys(drivers) :
             GoodLines(c) /= {} =>
                LET last == CHOOSE i \in GoodLines(c) : \A j \in GoodLines(c) : j <= i
                IN /\ DictGet(drivers, c).driver_name = files.abbreviations.lines[last][2]
                   /\ DictGet(drivers, c).team = files.abbreviations.lines[last][3]

\* C4: the report route answers every order other than 'desc' (none, 'asc', an
\* unrecognized one) as it answers 'asc': the same records in the same
\* positions with the same eliminated flags.
C4_OtherOrdersAreAscending ==
    (result.op = "report" /\ result.arg /= "desc") =>
        /\ result.raised = report(drivers, << "asc" >>).raised
        /\ result.value = report(drivers, << "asc" >>).value
        /\ rank_drivers(drivers, RequestOrder(IF result.arg = "" THEN << >>
                                               ELSE << result.arg >>)).value
             = rank_drivers(drivers, "asc").value

\* the codes of the records a report flags as advancing
Advancing(entries, order) ==
    LET ranked == rank_drivers(drivers, order).value
    IN { ranked[i].driver_init : i \in { j \in 1..Len(entries) : ~entries[j].eliminated } }

\* C5: get_report_data('desc') flags the same set of records as advancing as
\* get_report_data('asc') does.
C5_SameAdvancingSetInBothOrders ==
    (Returned("get_report_data") /\ result.arg = "desc") =>
        Advancing(result.value, "desc")
            = Advancing(get_report_data(drivers, "asc").value, "asc")

\* C6: lap_time in the output of get_report_data and get_driver_info is
\* "NO TIME" if and only if the record's duration is undefined; a record with
\* end_time >= start_time, a zero duration included, carries str() of its
\* duration.
C6_NoTimeIffUndefined ==
    /\ (Returned("get_driver_info") /\ result.value /= << >>) =>
          LET d == DictGet(drivers, result.arg)
          IN /\ (result.value[1].lap_time = "NO TIME") <=> ~Defined(d)
             /\ Defined(d) =>
                  result.value[1].lap_time = TimedeltaStr(d.end_time[1] - d.start_time)
    /\ Returned("get_report_data") =>
          LET ranked == rank_drivers(drivers, result.arg).value
          IN \A i \in 1..Len(result.value) :
               /\ (result.value[i].lap_time = "NO TIME") <=> ~Defined(ranked[i])
               /\ Defined(ranked[i]) =>
                    result.value[i].lap_time
                      = TimedeltaStr(ranked[i].end_time[1] - ranked[i].start_time)

\* C7: get_report_data('asc') on n loaded records returns n entries, with the
\* positions 1, ..., n in order, and the entry at position i is eliminated
\* exactly when i > 15.
C7_AscendingPositionsAndCutoff ==
    (result.op = "get_report_data" /\ result.arg = "asc") =>
        /\ result.raised = ""
        /\ Len(result.value) = Len(drivers)
        /\ \A i \in 1..Len(result.value) :
             /\ result.value[i].position = i
             /\ result.value[i].eliminated <=> (i > 15)

\* what get_report_data('asc') returns, when it returns: one entry per record,
\* positions 1, ..., n, eliminated exactly beyond position 15
ReturnedAscendingReportIsCut ==
    (Returned("get_report_data") /\ result.arg = "asc") =>
        /\ Len(result.value) = Len(drivers)
        /\ \A i \in 1..Len(result.value) :
             /\ result.value[i].position = i
             /\ result.value[i].eliminated <=> (i > 15)

\* C8: get_driver_info of a code that is no key of the mapping returns None
\* without raising, whatever the mapping holds, and leaves the mapping as it
\* was; the route then renders name 'Not Found', team 'N/A', lap_time 'N/A'.
C8_UnknownCodeIsNotFound ==
    /\ [](/\ (result.op = "get_driver_info" /\ result.arg \notin DictKeys(drivers))
                => (result.raised = "" /\ result.value = << >>)
          /\ (result.op = "driver_info" /\ result.arg \notin DictKeys(drivers))
                => /\ result.raised = ""
                   /\ result.value
                        = << [name |-> "Not Found", team |-> "N/A", lap_time |-> "N/A"] >>)
    /\ [][result'.op \in { "get_driver_info", "driver_info" } => drivers' = drivers]_vars

\* an unknown code was looked up, through the route, in a mapping that holds
\* records, one of them without end time
C8_Witness ==
    /\ result.op = "driver_info"
    /\ result.arg \notin DictKeys(drivers)
    /\ result.value = << NotFoundInfo >>
    /\ \E i \in 1..Len(drivers) : ~HasEndTime(drivers[i].value)

SameDuration(a, b) == driver_lap_time(a) = driver_lap_time(b)

\* C9: in the sequence rank_drivers returns, for either order, two records of
\* equal duration (two of undefined duration included) stand in the order of
\* the mapping, which is the order in which their codes first appear in the
\* start log.
C9_TiesKeepStartLogOrder ==
    Returned("rank_drivers") =>
        LET r == result.value
        IN \A i, j \in 1..Len(r) :
             (i < j /\ SameDuration(r[i], r[j])) =>
                /\ Place(drivers, r[i].driver_init) < Place(drivers, r[j].driver_init)
                /\ { r[i].driver_init, r[j].driver_init } \subseteq DictKeys(loaded_start_times)
                     => Place(loaded_start_times, r[i].driver_init)
                          < Place(loaded_start_times, r[j].driver_init)

\* what the sort keeps, whatever was loaded before: ties stand in the order of
\* the mapping
TiesKeepMappingOrder ==
    Returned("rank_drivers") =>
        LET r == result.value
        IN \A i, j \in 1..Len(r) :
             (i < j /\ SameDuration(r[i], r[j])) =>
                Place(drivers, r[i].driver_init) < Place(drivers, r[j].driver_init)

\* C10: after every completed process_files, first or repeated, the codes of
\* the mapping are exactly the codes parsed from the start log in that run.
C10_MappingHoldsTheStartLogCodes ==
    (loads > 0 /\ load_raised = "") => DictKeys(drivers) = DictKeys(loaded_start_times)
====
